---- MODULE Spec2Model ----
(***************************************************************************)
(* Text-to-PowerPoint generator: the FastAPI backend (app/main.py), the    *)
(* outline generator (app/services/llm_service.py) and the calls it makes  *)
(* to the deck renderer (app/services/ppt_service.py).                     *)
(*                                                                         *)
(* Text is a sequence of symbols.  A symbol is one character ("{", "}",    *)
(* the backtick, the double quote, " ", a newline ...) or a chunk of characters     *)
(* none of which is a brace, a backtick, a quote, whitespace or JSON       *)
(* punctuation ("slides", "Hi", "json").  find, rfind, strip, slicing and  *)
(* the regular expression of the code only ever look at those special      *)
(* characters, and the code compares positions only with 0 and len-1, so   *)
(* they act on symbols as they act on characters.                          *)
(***************************************************************************)
EXTENDS Integers, Sequences, FiniteSets, TLC

VARIABLES
    generation_tasks,   \* main.py:36  task_id -> status entry
    pc,                 \* position of each background task
    task_args,          \* arguments captured by background_tasks.add_task
    slide_structure,    \* local of process_full_generation, per task
    fs,                 \* files on disk (paths)
    llm_calls,          \* history: the tasks that built an LLM client and
                        \* called its backend
    http,               \* the last HTTP exchange: endpoint, response, and the
                        \* LLM clients built and backend calls made to answer
    input,              \* outline generator: the raw backend result under test
    result              \* outline generator: what the code returned for it

vars == <<generation_tasks, pc, task_args, slide_structure, fs, llm_calls, http,
          input, result>>

serverVars == <<generation_tasks, pc, task_args, slide_structure, fs, llm_calls, http>>

-----------------------------------------------------------------------------
(* Bounds *)

MaxTasks == 2
MaxSlides == 2
MaxTemplateSlides == 2

-----------------------------------------------------------------------------
(* Python str operations on symbol sequences *)

Q == "\""
\* the backtick character (written by name: the character itself is not
\* accepted inside a TLA+ string)
BT == "<backtick>"
NL == "\n"

Whitespace == {" ", NL, "\t"}

Max(a, b) == IF a > b THEN a ELSE b
Min(a, b) == IF a < b THEN a ELSE b

\* s[a:] with 0-based a >= 0
SliceFrom(s, a) == SubSeq(s, a + 1, Len(s))

\* s[:b] with 0-based b >= 0
SliceTo(s, b) == SubSeq(s, 1, Min(b, Len(s)))

RECURSIVE lstrip(_)
\* str.lstrip()
lstrip(s) ==
    IF s # <<>> /\ Head(s) \in Whitespace THEN lstrip(Tail(s)) ELSE s

RECURSIVE rstrip(_)
\* str.rstrip()
rstrip(s) ==
    IF s # <<>> /\ s[Len(s)] \in Whitespace THEN rstrip(SubSeq(s, 1, Len(s) - 1)) ELSE s

\* str.strip()
strip(s) == rstrip(lstrip(s))

RECURSIVE find_from(_, _, _)
find_from(s, c, i) ==
    IF i > Len(s) THEN -1
    ELSE IF s[i] = c THEN i - 1
    ELSE find_from(s, c, i + 1)

\* str.find(c): 0-based index of the first occurrence, -1 when absent
find(s, c) == find_from(s, c, 1)

RECURSIVE rfind_from(_, _, _)
rfind_from(s, c, i) ==
    IF i < 1 THEN -1
    ELSE IF s[i] = c THEN i - 1
    ELSE rfind_from(s, c, i - 1)

\* str.rfind(c): 0-based index of the last occurrence, -1 when absent
rfind(s, c) == rfind_from(s, c, Len(s))

\* the pattern of both re.sub calls: six consecutive backticks
FenceRunLen == 6

MatchesAt(s, i) ==
    /\ i + FenceRunLen - 1 <= Len(s)
    /\ \A j \in i..(i + FenceRunLen - 1) : s[j] = BT

RECURSIVE re_sub_from(_, _)
re_sub_from(s, i) ==
    IF i > Len(s) THEN <<>>
    ELSE IF MatchesAt(s, i) THEN re_sub_from(s, i + FenceRunLen)
    ELSE <<s[i]>> \o re_sub_from(s, i + 1)

\* re.sub(<six backticks>, '', s): leftmost non-overlapping matches removed
re_sub(s) == re_sub_from(s, 1)

\* str(n) for a natural number
Digits == <<"0", "1", "2", "3", "4", "5", "6", "7", "8", "9">>

RECURSIVE IntToStr(_)
IntToStr(n) ==
    IF n < 10 THEN <<Digits[n + 1]>>
    ELSE IntToStr(n \div 10) \o <<Digits[(n % 10) + 1]>>

-----------------------------------------------------------------------------
(* JSON values, as json.loads builds them *)

JNull == [k |-> "null"]
JBool(b) == [k |-> "bool", b |-> b]
JNum(n) == [k |-> "num", n |-> n]
JStr(s) == [k |-> "str", s |-> s]
JArr(a) == [k |-> "arr", a |-> a]
\* a dict: a function from keys (strings) to values
JObj(o) == [k |-> "obj", o |-> o]

EmptyDict == [x \in {} |-> JNull]

\* d[key] = val, as dict assignment
DictSet(d, key, val) ==
    [x \in (DOMAIN d) \cup {key} |-> IF x = key THEN val ELSE d[x]]

\* d.setdefault(key, val)
setdefault(d, key, val) == IF key \in DOMAIN d THEN d ELSE DictSet(d, key, val)

isinstance_dict(v) == v.k = "obj"
isinstance_list(v) == v.k = "arr"

-----------------------------------------------------------------------------
(* json.loads: a recursive-descent reading of the symbol sequence *)

Eof == "<eof>"
Sym(s, i) == IF i >= 1 /\ i <= Len(s) THEN s[i] ELSE Eof

DigitSyms == {Digits[i] : i \in 1..Len(Digits)}
DigitValue(c) == (CHOOSE i \in 1..Len(Digits) : Digits[i] = c) - 1

\* control characters are not allowed inside a JSON string (strict mode)
ControlChars == {NL, "\t"}

RECURSIVE SkipWs(_, _)
SkipWs(s, i) ==
    IF i <= Len(s) /\ s[i] \in Whitespace THEN SkipWs(s, i + 1) ELSE i

ParseFail(i) == [ok |-> FALSE, v |-> JNull, pos |-> i]
ParseOk(v, i) == [ok |-> TRUE, v |-> v, pos |-> i]

\* a string literal starting at the quote s[i]
ParseString(s, i) ==
    LET j == IF Sym(s, i) = Q THEN find_from(s, Q, i + 1) + 1 ELSE 0
        body == SubSeq(s, i + 1, j - 1)
    IN  IF j = 0 THEN ParseFail(i)
        ELSE IF \E n \in 1..Len(body) : body[n] \in ControlChars
        THEN ParseFail(i)
        ELSE ParseOk(JStr(body), j + 1)

RECURSIVE ParseValue(_, _)
RECURSIVE ParseElems(_, _, _)
RECURSIVE ParseMembers(_, _, _)

\* the elements of an array, s[i] being the first symbol of an element
ParseElems(s, i, acc) ==
    LET e == ParseValue(s, i)
        j == SkipWs(s, e.pos)
    IN  IF ~e.ok THEN ParseFail(i)
        ELSE IF Sym(s, j) = "," THEN ParseElems(s, SkipWs(s, j + 1), Append(acc, e.v))
        ELSE IF Sym(s, j) = "]" THEN ParseOk(JArr(Append(acc, e.v)), j + 1)
        ELSE ParseFail(j)

\* the members of an object, s[i] being the quote that opens a key;
\* a repeated key keeps its last value
ParseMembers(s, i, acc) ==
    LET key == ParseString(s, i)
        c == SkipWs(s, key.pos)
        val == ParseValue(s, SkipWs(s, c + 1))
        j == SkipWs(s, val.pos)
    IN  IF ~key.ok \/ Sym(s, c) # ":" THEN ParseFail(i)
        ELSE IF ~val.ok THEN ParseFail(c)
        ELSE IF Sym(s, j) = "," THEN ParseMembers(s, SkipWs(s, j + 1), DictSet(acc, key.v.s, val.v))
        ELSE IF Sym(s, j) = "}" THEN ParseOk(JObj(DictSet(acc, key.v.s, val.v)), j + 1)
        ELSE ParseFail(j)

ParseValue(s, i) ==
    LET c == Sym(s, i)
    IN  IF c = "{" THEN
            IF Sym(s, SkipWs(s, i + 1)) = "}"
            THEN ParseOk(JObj(EmptyDict), SkipWs(s, i + 1) + 1)
            ELSE ParseMembers(s, SkipWs(s, i + 1), EmptyDict)
        ELSE IF c = "[" THEN
            IF Sym(s, SkipWs(s, i + 1)) = "]"
            THEN ParseOk(JArr(<<>>), SkipWs(s, i + 1) + 1)
            ELSE ParseElems(s, SkipWs(s, i + 1), <<>>)
        ELSE IF c = Q THEN ParseString(s, i)
        ELSE IF c \in DigitSyms THEN ParseOk(JNum(DigitValue(c)), i + 1)
        ELSE IF c = "null" THEN ParseOk(JNull, i + 1)
        ELSE IF c = "true" THEN ParseOk(JBool(TRUE), i + 1)
        ELSE IF c = "false" THEN ParseOk(JBool(FALSE), i + 1)
        ELSE ParseFail(i)

\* json.loads(s): one value, surrounded by optional whitespace, and nothing
\* else ("Extra data" otherwise); ok = FALSE stands for json.JSONDecodeError
json_loads(s) ==
    LET r == ParseValue(s, SkipWs(s, 1))
    IN  IF r.ok /\ SkipWs(s, r.pos) = Len(s) + 1
        THEN [ok |-> TRUE, v |-> r.v]
        ELSE [ok |-> FALSE, v |-> JNull]

-----------------------------------------------------------------------------
(* llm_service.py: LLMService *)

\* a Python string literal that is one chunk
Py(x) == <<x>>

\* outcome of a call: a returned value or a raised exception with its text
Return(v) == [ok |-> TRUE, value |-> v, err |-> <<>>]
Raise(msg) == [ok |-> FALSE, value |-> JNull, err |-> msg]

\* what a backend call produced: a text, None, or an exception with its text
BackendText(t) == [kind |-> "text", text |-> t]
BackendNone == [kind |-> "none", text |-> <<>>]
BackendError(t) == [kind |-> "error", text |-> t]

\* the first n characters, response[:n]
ErrorPrefixLen == 100

\* lines 187-189: both re.sub calls
RemoveFences(s) == re_sub(re_sub(s))

\* RemoveBefore cutting one character further
RemoveBefore_past_brace(s) ==
    LET first_brace == find(s, "{")
    IN  IF first_brace > 0 THEN SliceFrom(s, first_brace + 1) ELSE s

\* lines 191-195: remove any text before the first {
RemoveBefore(s) ==
    LET first_brace == find(s, "{")
    IN  IF first_brace > 0 THEN SliceFrom(s, first_brace) ELSE s

\* RemoveAfter looking for the first } instead of the last
RemoveAfter_first_brace(s) ==
    LET last_brace == find(s, "}")
    IN  IF last_brace > 0 /\ last_brace < Len(s) - 1
        THEN SliceTo(s, last_brace + 1)
        ELSE s

\* RemoveAfter cutting before the last } instead of after it
RemoveAfter_drops_brace(s) ==
    LET last_brace == rfind(s, "}")
    IN  IF last_brace > 0 /\ last_brace < Len(s) - 1
        THEN SliceTo(s, last_brace)
        ELSE s

\* lines 197-201: remove any text after the last }
RemoveAfter(s) ==
    LET last_brace == rfind(s, "}")
    IN  IF last_brace > 0 /\ last_brace < Len(s) - 1
        THEN SliceTo(s, last_brace + 1)
        ELSE s

\* lines 185-201: the text handed to json.loads
cleaned_response(response) ==
    RemoveAfter(RemoveBefore(RemoveFences(strip(response))))

PlaceholderBullet == JArr(<<JStr(Py("Main point for this slide"))>>)

IsStr(v, x) == v.k = "str" /\ v.s = Py(x)

\* fix_slide adding the placeholder bullet to whatever content there is
fix_slide_appending(slide, i) ==
    LET a == setdefault(slide, Py("type"), JStr(Py("content")))
        b == setdefault(a, Py("title"), JStr(<<"Slide ">> \o IntToStr(i + 1)))
        c == setdefault(b, Py("speaker_notes"),
                        JStr(<<"Notes for slide ">> \o IntToStr(i + 1)))
    IN  IF IsStr(c[Py("type")], "content")
        THEN DictSet(c, Py("content"),
                     JArr((IF Py("content") \in DOMAIN c /\ c[Py("content")].k = "arr"
                           THEN c[Py("content")].a ELSE <<>>)
                          \o PlaceholderBullet.a))
        ELSE c

\* lines 223-228: the body of the loop, for a slide that is a dict;
\* i is the index enumerate gives (from 0)
fix_slide(slide, i) ==
    LET a == setdefault(slide, Py("type"), JStr(Py("content")))
        b == setdefault(a, Py("title"), JStr(<<"Slide ">> \o IntToStr(i + 1)))
        c == setdefault(b, Py("speaker_notes"),
                        JStr(<<"Notes for slide ">> \o IntToStr(i + 1)))
    IN  IF IsStr(c[Py("type")], "content") /\ Py("content") \notin DOMAIN c
        THEN DictSet(c, Py("content"), PlaceholderBullet)
        ELSE c

\* lines 219-230: fix any missing fields; slide.setdefault raises
\* AttributeError on an element that is not a dict
fix_missing_fields(structure) ==
    LET slides == structure[Py("slides")].a
        titled == setdefault(structure, Py("title"), JStr(Py("Generated Presentation")))
    IN  IF \E i \in 1..Len(slides) : ~isinstance_dict(slides[i])
        THEN Raise(<<"Failed to parse LLM response: ",
                     "object has no attribute 'setdefault'">>)
        ELSE Return(JObj(DictSet(titled, Py("slides"),
                 JArr([i \in 1..Len(slides) |-> JObj(fix_slide(slides[i].o, i - 1))]))))

\* lines 208-230: validate structure
validate_structure(v) ==
    IF ~isinstance_dict(v)
    THEN Raise(<<"Failed to parse LLM response: ", "Response is not a JSON object">>)
    ELSE IF Py("slides") \notin DOMAIN v.o
    THEN Raise(<<"Failed to parse LLM response: ", "No 'slides' key found in response">>)
    ELSE IF ~isinstance_list(v.o[Py("slides")]) \/ Len(v.o[Py("slides")].a) = 0
    THEN Raise(<<"Failed to parse LLM response: ", "'slides' must be a non-empty array">>)
    ELSE fix_missing_fields(v.o)

\* lines 178-238: _parse_llm_response
_parse_llm_response(response) ==
    IF response = <<>> \/ strip(response) = <<>>
    THEN Raise(<<"Failed to parse LLM response: ", "Empty response from LLM">>)
    ELSE LET parsed == json_loads(cleaned_response(response))
         IN  IF ~parsed.ok
             THEN Raise(<<"Invalid JSON from LLM. Response started with: ">>
                        \o SliceTo(response, ErrorPrefixLen) \o <<"...">>)
             ELSE validate_structure(parsed.v)

SupportedProviders == {"openai", "anthropic", "gemini"}

\* str.lower() on the provider names of the model
lower(p) ==
    CASE p = "OpenAI" -> "openai"
      [] p = "GEMINI" -> "gemini"
      [] OTHER -> p

\* lines 15-37: __init__ and _setup_client
LLMService(provider) ==
    IF lower(provider) \in SupportedProviders
    THEN [ok |-> TRUE, provider |-> lower(provider), err |-> <<>>]
    ELSE [ok |-> FALSE, provider |-> lower(provider),
          err |-> <<"Unsupported LLM provider: ", lower(provider)>>]

ProviderLabel(p) ==
    CASE p = "openai" -> "OpenAI"
      [] p = "anthropic" -> "Anthropic"
      [] p = "gemini" -> "Gemini"

\* lines 105-176: _process_with_openai / _anthropic / _gemini, given what
\* the backend call produced
_process_with(provider, backend) ==
    IF backend.kind # "error" THEN Return(backend)
    ELSE IF provider = "gemini" /\ \E i \in 1..Len(backend.text) : backend.text[i] = "API key"
    THEN Raise(<<"Invalid Gemini API key. Get one from https://ai.google.dev/">>)
    ELSE Raise(<<ProviderLabel(provider), " processing failed: ">> \o backend.text)

\* IsEmptyResponse without the strip() test
IsEmptyResponse_unstripped(response) ==
    response.kind = "none" \/ response.text = <<>>

\* line 63: not response or not response.strip()
IsEmptyResponse(response) ==
    response.kind = "none" \/ response.text = <<>> \/ strip(response.text) = <<>>

\* lines 39-73: process_text_to_slides of a constructed service; parsed
\* tells whether _parse_llm_response was called
process_text_to_slides(provider, backend) ==
    LET r == _process_with(provider, backend)
        wrap(msg) == <<"LLM processing failed: ">> \o msg
    IN  IF ~r.ok
        THEN [ok |-> FALSE, value |-> JNull, err |-> wrap(r.err), parsed |-> FALSE]
        ELSE IF IsEmptyResponse(r.value)
        THEN [ok |-> FALSE, value |-> JNull,
              err |-> wrap(<<"Empty response from LLM">>), parsed |-> FALSE]
        ELSE LET p == _parse_llm_response(r.value.text)
             IN  [ok |-> p.ok, value |-> p.value,
                  err |-> IF p.ok THEN <<>> ELSE wrap(p.err), parsed |-> TRUE]

-----------------------------------------------------------------------------
(* The backend results the outline generator is exercised on.  A document   *)
(* is written down with its members in order (OObj), turned into text by   *)
(* JsonText, and wrapped the way models wrap their answers.                *)

\* an object as written: a sequence of <<key, value>> members
OObj(m) == [k |-> "oobj", m |-> m]

RECURSIVE JsonText(_, _)
RECURSIVE JoinText(_, _, _)

\* the texts of the items of a sequence, separated by commas
JoinText(items, sp, member) ==
    IF Len(items) = 0 THEN <<>>
    ELSE LET one == IF member
                    THEN <<Q>> \o Head(items)[1] \o <<Q, ":">> \o sp
                         \o JsonText(Head(items)[2], sp)
                    ELSE JsonText(Head(items), sp)
         IN  IF Len(items) = 1 THEN one
             ELSE one \o <<",">> \o sp \o JoinText(Tail(items), sp, member)

\* the JSON text of a document; sp is written after each ':' and ','
JsonText(v, sp) ==
    CASE v.k = "null" -> <<"null">>
      [] v.k = "bool" -> IF v.b THEN <<"true">> ELSE <<"false">>
      [] v.k = "num"  -> <<Digits[v.n + 1]>>
      [] v.k = "str"  -> <<Q>> \o v.s \o <<Q>>
      [] v.k = "arr"  -> <<"[">> \o JoinText(v.a, sp, FALSE) \o <<"]">>
      [] v.k = "oobj" -> <<"{">> \o JoinText(v.m, sp, TRUE) \o <<"}">>

RECURSIVE ToValue(_)
RECURSIVE MembersToDict(_)

MembersToDict(m) ==
    IF Len(m) = 0 THEN EmptyDict
    ELSE LET rest == MembersToDict(SubSeq(m, 1, Len(m) - 1))
         IN  DictSet(rest, m[Len(m)][1], ToValue(m[Len(m)][2]))

\* the value a document denotes
ToValue(v) ==
    CASE v.k = "arr"  -> JArr([i \in 1..Len(v.a) |-> ToValue(v.a[i])])
      [] v.k = "oobj" -> JObj(MembersToDict(v.m))
      [] OTHER -> v

SixBackticks == <<BT, BT, BT, BT, BT, BT>>

SlideHi == OObj(<< <<Py("type"), JStr(Py("title"))>>, <<Py("title"), JStr(Py("Hi"))>> >>)
SlideBare == OObj(<<>>)
SlideFull ==
    OObj(<< <<Py("type"), JStr(Py("content"))>>, <<Py("title"), JStr(<<"Goals", " ", "{", "Q3", "}">>)>>,
            <<Py("content"), JArr(<<JStr(Py("a")), JStr(Py("b"))>>)>>,
            <<Py("speaker_notes"), JStr(Py("say"))>> >>)
SlideSection == OObj(<< <<Py("type"), JStr(Py("section"))>>, <<Py("subtitle"), JStr(Py("Part"))>> >>)
SlideTicks == OObj(<< <<Py("title"), JStr(<<"use", " ">> \o SixBackticks)>> >>)

SlideEmptyContent ==
    OObj(<< <<Py("type"), JStr(Py("content"))>>, <<Py("title"), JStr(Py("Hi"))>>,
            <<Py("content"), JArr(<<>>)>> >>)
SlideChart == OObj(<< <<Py("type"), JStr(Py("chart"))>>, <<Py("title"), JStr(Py("Hi"))>> >>)

\* elements of a slides array that are objects
SlideObjects ==
    {SlideHi, SlideBare, SlideFull, SlideSection, SlideTicks, SlideEmptyContent, SlideChart}

\* elements of a slides array that are not objects
SlideOthers == {JNum(1), JStr(Py("intro"))}

SlideElems == SlideObjects \cup SlideOthers

SeqsUpTo(S, n) == UNION {[1..m -> S] : m \in 1..n}

SlidesDoc(slides, titled) ==
    OObj((IF titled THEN << <<Py("title"), JStr(Py("Deck"))>> >> ELSE <<>>)
         \o << <<Py("slides"), JArr(slides)>> >>)

\* objects with a non-empty slides array
OutlineDocs ==
    {SlidesDoc(sl, t) : sl \in SeqsUpTo(SlideElems, MaxSlides), t \in BOOLEAN}

\* objects without slides, or whose slides is not a non-empty list
BadObjectDocs ==
    { OObj(<<>>),
      OObj(<< <<Py("title"), JStr(Py("Deck"))>> >>),
      SlidesDoc(<<>>, TRUE),
      OObj(<< <<Py("slides"), JStr(Py("none"))>> >>),
      OObj(<< <<Py("slides"), OObj(<< <<Py("0"), SlideHi>> >>)>> >>),
      OObj(<< <<Py("slides"), JNull>> >>) }

\* roots that are not objects
NonObjectDocs ==
    { JArr(<<>>), JArr(<<JNum(1), JStr(Py("x"))>>), JStr(Py("outline")),
      JNum(7), JNull, JBool(TRUE),
      JArr(<<SlidesDoc(<<SlideHi>>, FALSE)>>),
      JArr(<<OObj(<< <<Py("a"), JNum(1)>> >>)>>),
      JArr(<<OObj(<< <<Py("a"), JNum(1)>> >>), OObj(<< <<Py("b"), JNum(2)>> >>)>>),
      JStr(<<"{", "}">>) }

Docs == OutlineDocs \cup BadObjectDocs \cup NonObjectDocs

\* texts that are not JSON at all
BrokenTexts ==
    { <<"{", Q, "slides", Q, ":", "[">>,
      <<"{", Q, "slides", Q, ":", "[", "{", "}", ",", "]", "}">>,
      <<"{", "slides", ":", "[", "{", "}", "]", "}">>,
      <<"Sorry", " ", "no", " ", "outline">>,
      <<"done", "}", " ", "{", Q, "slides", Q>>,
      <<"{", Q, "title", Q, ":", Q, "a", NL, "b", Q, "}">> }

Fence == <<BT, BT, BT>>

\* text before the JSON: plain prose, and prose holding a closing brace
Prefixes ==
    { <<"Here", " ", "is", " ", "the", " ", "JSON", ":", NL>>,
      <<"}", " ">> }

\* text after the JSON: plain prose, and prose holding an opening brace
Suffixes ==
    { <<NL, "Hope", " ", "this", " ", "helps">>,
      <<" ", "{", "more">> }

Forms == {"bare", "padded", "fenced", "fenced_tag", "prose"}

\* the response built around the text j
Wrapped(form, j, pre, post) ==
    CASE form = "bare"       -> j
      [] form = "padded"     -> <<NL, " ">> \o j \o <<" ", NL>>
      [] form = "fenced"     -> Fence \o <<NL>> \o j \o <<NL>> \o Fence
      [] form = "fenced_tag" -> Fence \o <<"json", NL>> \o j \o <<NL>> \o Fence
      [] form = "prose"      -> pre \o j \o post

NoDoc == [k |-> "none"]

MkInput(doc, form, inner, backend) ==
    [doc |-> doc, form |-> form, inner |-> inner, backend |-> backend]

DocInputs ==
    {MkInput(d, f, JsonText(d, IF f = "padded" THEN <<" ">> ELSE <<>>),
             BackendText(Wrapped(f, JsonText(d, IF f = "padded" THEN <<" ">> ELSE <<>>),
                                 <<>>, <<>>))) :
        d \in Docs, f \in Forms \ {"prose"}}
    \cup
    {MkInput(d, "prose", JsonText(d, <<>>),
             BackendText(Wrapped("prose", JsonText(d, <<>>), pre, post))) :
        d \in Docs, pre \in Prefixes, post \in Suffixes}

BrokenInputs ==
    {MkInput(NoDoc, "broken", t, BackendText(t)) : t \in BrokenTexts}
    \cup
    {MkInput(NoDoc, "broken", t, BackendText(pre \o t \o post)) :
        t \in BrokenTexts, pre \in Prefixes, post \in Suffixes}

EmptyInputs ==
    {MkInput(NoDoc, "empty", <<>>, b) :
        b \in {BackendNone, BackendText(<<>>), BackendText(<<" ">>),
               BackendText(<<NL, " ", "\t">>)}}

ErrorInputs ==
    {MkInput(NoDoc, "error", <<>>, b) :
        b \in {BackendError(<<"rate", " ", "limit">>),
               BackendError(<<"API key", " ", "not", " ", "valid">>)}}

Inputs == DocInputs \cup BrokenInputs \cup EmptyInputs \cup ErrorInputs

IdleInput == MkInput(NoDoc, "idle", <<>>, BackendNone)

NoOut == [ok |-> FALSE, value |-> JNull, err |-> <<>>, parsed |-> FALSE]
IdleResult == [op |-> "idle", out |-> NoOut]

-----------------------------------------------------------------------------
(* main.py: the HTTP endpoints *)

TaskIds == 1..MaxTasks

\* main.py:62 and main.py:103
MinTextLen == 20

Chars(n) == [i \in 1..n |-> "a"]

\* request texts: 19 and 20 characters, and 19 characters inside whitespace
Texts == {Chars(MinTextLen - 1), Chars(MinTextLen),
          <<" ">> \o Chars(MinTextLen - 1) \o <<" ", NL>>}

Providers == {"openai", "anthropic", "gemini", "OpenAI", "foo"}

\* uploaded file names, as stem and extension
Filenames == {<<"Deck", ".PPTX">>, <<"notes", ".pdf">>}

\* str.lower() on the file names of the model
lower_name(f) ==
    [i \in 1..Len(f) |->
        CASE f[i] = "Deck" -> "deck"
          [] f[i] = ".PPTX" -> ".pptx"
          [] OTHER -> f[i]]

\* main.py:106
IsTemplateName(f) == lower_name(f)[Len(f)] \in {".pptx", ".potx"}

\* what a backend answers in the server model
GoodResponse == BackendText(JsonText(SlidesDoc(<<SlideHi>>, FALSE), <<>>))

BackendResults ==
    { GoodResponse,
      BackendText(<<"Sorry", " ", "no", " ", "outline">>),
      BackendNone,
      BackendError(<<"rate", " ", "limit">>) }

\* process_text_to_slides(provider, backend), tabulated once over the
\* providers and the backend results of the server model
OutlineOutcome ==
    [p \in SupportedProviders |->
        [b \in BackendResults |-> process_text_to_slides(p, b)]]

NoPath == [dir |-> "None", task |-> 0, name |-> ""]
\* template_path with one name for every task
template_path_shared(t) == [dir |-> "temp_files/", task |-> 0, name |-> "_template.pptx"]

template_path(t) == [dir |-> "temp_files/", task |-> t, name |-> "_template.pptx"]
output_path(t) == [dir |-> "generated_files/", task |-> t, name |-> "_presentation.pptx"]

NoArgs == [llm_provider |-> "none"]

\* dict.update on a status entry
update(entry, changes) ==
    [f \in DOMAIN entry |-> IF f \in DOMAIN changes THEN changes[f] ELSE entry[f]]

TaskUpdate(t, changes) ==
    [generation_tasks EXCEPT ![t] = update(generation_tasks[t], changes)]

NoBody == [kind |-> "none"]

\* an HTTP exchange: the endpoint, the task_id of the path or of the answer,
\* the text of the request, and the response
Exchange(op, t, text, code, detail, body, events) ==
    [op |-> op, task |-> t, text |-> text, code |-> code, detail |-> detail,
     body |-> body, events |-> events]

\* str(HTTPException(status_code, detail))
HTTPExceptionStr(code, detail) == IntToStr(code) \o <<": ", detail>>

\* what answering took: an LLM client built, a backend called
LLMEvents == <<"LLMService", "backend">>

\* lines 72-88: the answer to the outcome r of process_text_to_slides
outline_response(r) ==
    IF r.ok
    THEN [code |-> 200, detail |-> <<>>, events |-> LLMEvents,
          body |-> [kind |-> "outline",
                    slide_count |-> Len(r.value.o[Py("slides")].a),
                    presentation |-> r.value]]
    ELSE [code |-> 500, body |-> NoBody, events |-> LLMEvents,
          detail |-> <<"Processing failed: ">> \o r.err]

\* process_text_response measuring the text without trimming it
process_text_response_untrimmed(text, llm_provider, backend) ==
    IF Len(text) < MinTextLen
    THEN [code |-> 500, body |-> NoBody, events |-> <<>>,
          detail |-> <<"Processing failed: ">>
                     \o HTTPExceptionStr(400, "Text must be at least 20 characters")]
    ELSE IF llm_provider \notin SupportedProviders
    THEN [code |-> 500, body |-> NoBody, events |-> <<>>,
          detail |-> <<"Processing failed: ">>
                     \o HTTPExceptionStr(400, "Unsupported LLM provider")]
    ELSE outline_response(OutlineOutcome[LLMService(llm_provider).provider][backend])

\* lines 61-88: what the outline-only endpoint does with a request, given
\* what the backend would answer
process_text_response(text, llm_provider, backend) ==
    IF Len(strip(text)) < MinTextLen
    THEN [code |-> 500, body |-> NoBody, events |-> <<>>,
          detail |-> <<"Processing failed: ">>
                     \o HTTPExceptionStr(400, "Text must be at least 20 characters")]
    ELSE IF llm_provider \notin SupportedProviders
    THEN [code |-> 500, body |-> NoBody, events |-> <<>>,
          detail |-> <<"Processing failed: ">>
                     \o HTTPExceptionStr(400, "Unsupported LLM provider")]
    ELSE outline_response(OutlineOutcome[LLMService(llm_provider).provider][backend])

\* llm_service.py:109-116: _process_with_openai calls the client inside the
\* coroutine; lines 140 and 168 hand the call to an executor and await it
CallsInline(provider) == lower(provider) = "openai"

\* the coroutine of task t holds the event loop: it is inside the backend
\* call made inline, or between the completed update and the end of the
\* cleanup (main.py:237-247, no await)
HoldsLoop(t) ==
    \/ pc[t] = "cleanup"
    \/ pc[t] = "calling" /\ CallsInline(task_args[t].llm_provider)

\* the event loop can run a request handler
EventLoopFree == \A t \in TaskIds : ~HoldsLoop(t)

\* the event loop can run the next step of task t
CanRun(t) == \A u \in TaskIds \ {t} : ~HoldsLoop(u)

\* the exchange of a request text answered with r
Respond(op, text, r) == Exchange(op, 0, text, r.code, r.detail, r.body, r.events)

\* POST /process-text
ProcessText(text, llm_provider, backend) ==
    /\ EventLoopFree
    /\ http' = Respond("process-text", text,
                       process_text_response(text, llm_provider, backend))
    /\ UNCHANGED <<generation_tasks, pc, task_args, slide_structure, fs, llm_calls,
                   input, result>>

\* lines 101-107: validate inputs; <<>> when they pass
generate_rejection(text, filename) ==
    IF Len(strip(text)) < MinTextLen
    THEN <<"Failed to start generation: ">>
         \o HTTPExceptionStr(400, "Text must be at least 20 characters")
    ELSE IF ~IsTemplateName(filename)
    THEN <<"Failed to start generation: ">>
         \o HTTPExceptionStr(400, "Template must be a .pptx or .potx file")
    ELSE <<>>

\* lines 109-137: the inputs passed; task_id is the uuid4 drawn
StartGeneration(task_id, text, llm_provider) ==
    /\ task_id \in TaskIds \ DOMAIN generation_tasks
    /\ generation_tasks' =
          [t \in (DOMAIN generation_tasks) \cup {task_id} |->
              IF t = task_id
              THEN [status |-> "started", progress |-> 0,
                    message |-> <<"Starting presentation generation...">>,
                    file_path |-> NoPath]
              ELSE generation_tasks[t]]
    /\ pc' = [pc EXCEPT ![task_id] = "queued"]
    /\ task_args' = [task_args EXCEPT ![task_id] = [llm_provider |-> llm_provider]]
    /\ http' = Exchange("generate-presentation", task_id, text, 200, <<>>,
                        [kind |-> "task", task_id |-> task_id, status |-> "started"],
                        <<>>)

\* POST /generate-presentation
GenerateFull(text, llm_provider, filename) ==
    /\ EventLoopFree
    /\ IF generate_rejection(text, filename) # <<>>
       THEN /\ http' = Exchange("generate-presentation", 0, text, 500,
                                generate_rejection(text, filename), NoBody, <<>>)
            /\ UNCHANGED <<generation_tasks, pc, task_args>>
       ELSE \E task_id \in TaskIds : StartGeneration(task_id, text, llm_provider)
    /\ UNCHANGED <<slide_structure, fs, llm_calls, input, result>>

\* lines 146-157: the response of the status endpoint
status_response(task_id) ==
    IF task_id \notin DOMAIN generation_tasks
    THEN [code |-> 404, detail |-> <<"Task not found">>, body |-> NoBody]
    ELSE [code |-> 200, detail |-> <<>>,
          body |-> [kind |-> "status",
                    status |-> generation_tasks[task_id].status,
                    progress |-> generation_tasks[task_id].progress,
                    message |-> generation_tasks[task_id].message,
                    file_ready |-> generation_tasks[task_id].status = "completed"]]

\* GET /generation-status/{task_id}
GetGenerationStatus(task_id) ==
    /\ EventLoopFree
    /\ http' = Exchange("generation-status", task_id, <<>>, status_response(task_id).code,
                        status_response(task_id).detail, status_response(task_id).body, <<>>)
    /\ UNCHANGED <<generation_tasks, pc, task_args, slide_structure, fs, llm_calls,
                   input, result>>

\* download_response with the status test loosened to "not failed"
download_response_any_live(task_id) ==
    IF task_id \notin DOMAIN generation_tasks
    THEN [code |-> 404, detail |-> <<"Task not found">>, body |-> NoBody]
    ELSE IF generation_tasks[task_id].status = "failed"
    THEN [code |-> 400, detail |-> <<"Generation not completed">>, body |-> NoBody]
    ELSE IF generation_tasks[task_id].file_path = NoPath
            \/ generation_tasks[task_id].file_path \notin fs
    THEN [code |-> 404, detail |-> <<"Generated file not found">>, body |-> NoBody]
    ELSE [code |-> 200, detail |-> <<>>,
          body |-> [kind |-> "file", path |-> generation_tasks[task_id].file_path]]

\* lines 162-178: the response of the download endpoint
download_response(task_id) ==
    IF task_id \notin DOMAIN generation_tasks
    THEN [code |-> 404, detail |-> <<"Task not found">>, body |-> NoBody]
    ELSE IF generation_tasks[task_id].status # "completed"
    THEN [code |-> 400, detail |-> <<"Generation not completed">>, body |-> NoBody]
    ELSE IF generation_tasks[task_id].file_path = NoPath
            \/ generation_tasks[task_id].file_path \notin fs
    THEN [code |-> 404, detail |-> <<"Generated file not found">>, body |-> NoBody]
    ELSE [code |-> 200, detail |-> <<>>,
          body |-> [kind |-> "file", path |-> generation_tasks[task_id].file_path]]

\* GET /download/{task_id}
DownloadPresentation(task_id) ==
    /\ EventLoopFree
    /\ http' = Exchange("download", task_id, <<>>, download_response(task_id).code,
                        download_response(task_id).detail, download_response(task_id).body,
                        <<>>)
    /\ UNCHANGED <<generation_tasks, pc, task_args, slide_structure, fs, llm_calls,
                   input, result>>

-----------------------------------------------------------------------------
(* main.py:180-255: process_full_generation, step by step *)

\* the except clause writing a status outside the four and a progress of -1
failed_as_error(t, tasks, e) ==
    [tasks EXCEPT ![t] = update(tasks[t],
        [status |-> "error", progress |-> 0 - 1,
         message |-> <<"Generation failed: ">> \o e])]

\* the except clause dropping the text of the exception
failed_without_text(t, tasks, e) ==
    [tasks EXCEPT ![t] = update(tasks[t],
        [status |-> "failed", progress |-> 0,
         message |-> <<"Generation failed">>])]

\* the except clause leaving the entry as it is
failed_unrecorded(t, tasks, e) == tasks

\* lines 249-255: the except clause
failed(t, tasks, e) ==
    [tasks EXCEPT ![t] = update(tasks[t],
        [status |-> "failed", progress |-> 0,
         message |-> <<"Generation failed: ">> \o e])]

\* the coroutine is over: its arguments and locals are gone
Finish(t) ==
    /\ pc' = [pc EXCEPT ![t] = "done"]
    /\ task_args' = [task_args EXCEPT ![t] = NoArgs]

\* lines 191-196
BgBegin(t) ==
    /\ pc[t] = "queued"
    /\ CanRun(t)
    /\ generation_tasks' = TaskUpdate(t, [status |-> "processing", progress |-> 10,
                                          message |-> <<"Saving template file...">>])
    /\ pc' = [pc EXCEPT ![t] = "saving"]
    /\ UNCHANGED <<task_args, slide_structure, fs, llm_calls, http, input, result>>

SaveOutcomes == {"saved", "open_fails", "read_fails"}

\* str(e) of what saving the template raised
save_error(outcome) ==
    IF outcome = "read_fails" THEN <<"read of closed file">>
    ELSE <<"[Errno 13] Permission denied">>

\* lines 198-210: save the template file; open may fail before the file
\* exists, the read of the upload may fail after open created it
BgSaveTemplate(t, outcome) ==
    /\ pc[t] = "saving"
    /\ CanRun(t)
    /\ outcome \in SaveOutcomes
    /\ IF outcome = "saved"
       THEN /\ fs' = fs \cup {template_path(t)}
            /\ generation_tasks' =
                  TaskUpdate(t, [progress |-> 30,
                                 message |-> <<"Converting text to slides with AI...">>])
            /\ pc' = [pc EXCEPT ![t] = "llm"]
            /\ UNCHANGED task_args
       ELSE /\ fs' = IF outcome = "read_fails" THEN fs \cup {template_path(t)} ELSE fs
            /\ generation_tasks' =
                  failed(t, generation_tasks, save_error(outcome))
            /\ Finish(t)
    /\ UNCHANGED <<slide_structure, llm_calls, http, input, result>>

\* lines 212-214 and llm_service.py:46-57: build the service and start the
\* backend call
BgLLM(t) ==
    /\ pc[t] = "llm"
    /\ CanRun(t)
    /\ IF ~LLMService(task_args[t].llm_provider).ok
       THEN /\ generation_tasks' =
                  failed(t, generation_tasks, LLMService(task_args[t].llm_provider).err)
            /\ Finish(t)
            /\ UNCHANGED llm_calls
       ELSE /\ llm_calls' = llm_calls \cup {t}
            /\ pc' = [pc EXCEPT ![t] = "calling"]
            /\ UNCHANGED <<generation_tasks, task_args>>
    /\ UNCHANGED <<slide_structure, fs, http, input, result>>

\* the outcome of process_text_to_slides for task t when the backend gives
\* backend
TaskOutcome(t, backend) == OutlineOutcome[lower(task_args[t].llm_provider)][backend]

\* lines 214-224 and llm_service.py:59-73: the backend call is over, the
\* answer is parsed
BgLLMReturn(t, backend) ==
    /\ pc[t] = "calling"
    /\ CanRun(t)
    /\ backend \in BackendResults
    /\ IF TaskOutcome(t, backend).ok
       THEN /\ slide_structure' =
                  [slide_structure EXCEPT ![t] = TaskOutcome(t, backend).value]
            /\ generation_tasks' =
                  TaskUpdate(t, [progress |-> 70,
                                 message |-> <<"Creating PowerPoint presentation...">>])
            /\ pc' = [pc EXCEPT ![t] = "render"]
            /\ UNCHANGED task_args
       ELSE /\ generation_tasks' = failed(t, generation_tasks, TaskOutcome(t, backend).err)
            /\ Finish(t)
            /\ UNCHANGED slide_structure
    /\ UNCHANGED <<fs, llm_calls, http, input, result>>

RenderOutcomes == {"rendered", "render_fails"}

\* str(e) of what rendering raised (ppt_service.py:42-44)
render_error(outcome) == <<"Presentation creation failed: ", "Package not found">>

\* the completed update without its progress
completed_keeps_progress(t, tasks) ==
    [tasks EXCEPT ![t] = update(tasks[t],
        [status |-> "completed",
         message |-> <<"Presentation generated successfully!">>,
         file_path |-> output_path(t)])]

\* lines 237-243
completed(t, tasks) ==
    [tasks EXCEPT ![t] = update(tasks[t],
        [status |-> "completed", progress |-> 100,
         message |-> <<"Presentation generated successfully!">>,
         file_path |-> output_path(t)])]

\* BgRender marking the task completed whatever the renderer did
BgRender_completes_anyway(t, outcome) ==
    /\ pc[t] = "render"
    /\ CanRun(t)
    /\ outcome \in RenderOutcomes
    /\ fs' = IF outcome = "rendered" THEN fs \cup {output_path(t)} ELSE fs
    /\ generation_tasks' = completed(t, generation_tasks)
    /\ pc' = [pc EXCEPT ![t] = "cleanup"]
    /\ slide_structure' = [slide_structure EXCEPT ![t] = JNull]
    /\ UNCHANGED <<task_args, llm_calls, http, input, result>>

\* lines 226-243: render the deck and mark the task completed
BgRender(t, outcome) ==
    /\ pc[t] = "render"
    /\ CanRun(t)
    /\ outcome \in RenderOutcomes
    /\ IF outcome = "rendered"
       THEN /\ fs' = fs \cup {output_path(t)}
            /\ generation_tasks' = completed(t, generation_tasks)
            /\ pc' = [pc EXCEPT ![t] = "cleanup"]
            /\ UNCHANGED task_args
       ELSE /\ fs' = fs
            /\ generation_tasks' = failed(t, generation_tasks, render_error(outcome))
            /\ Finish(t)
    /\ slide_structure' = [slide_structure EXCEPT ![t] = JNull]
    /\ UNCHANGED <<llm_calls, http, input, result>>

CleanupOutcomes == {"unlinked", "unlink_fails"}

\* str(e) of what os.unlink raised
cleanup_error(outcome) == <<"[Errno 13] Permission denied">>

\* BgCleanup leaving the template where it is
BgCleanup_keeps_template(t, outcome) ==
    /\ pc[t] = "cleanup"
    /\ outcome \in CleanupOutcomes
    /\ fs' = fs
    /\ IF outcome = "unlinked"
       THEN UNCHANGED generation_tasks
       ELSE generation_tasks' = failed(t, generation_tasks, cleanup_error(outcome))
    /\ Finish(t)
    /\ UNCHANGED <<slide_structure, llm_calls, http, input, result>>

\* lines 245-255: delete the template; what os.unlink raises reaches the
\* except clause of the task
BgCleanup(t, outcome) ==
    /\ pc[t] = "cleanup"
    /\ outcome \in CleanupOutcomes
    /\ IF outcome = "unlinked"
       THEN /\ fs' = fs \ {template_path(t)}
            /\ UNCHANGED generation_tasks
       ELSE /\ fs' = fs
            /\ generation_tasks' = failed(t, generation_tasks, cleanup_error(outcome))
    /\ Finish(t)
    /\ UNCHANGED <<slide_structure, llm_calls, http, input, result>>

-----------------------------------------------------------------------------
(* The server *)

NoExchange == Exchange("none", 0, <<>>, 0, <<>>, NoBody, <<>>)

ServerInit ==
    /\ generation_tasks = [t \in {} |-> NoArgs]
    /\ pc = [t \in TaskIds |-> "absent"]
    /\ task_args = [t \in TaskIds |-> NoArgs]
    /\ slide_structure = [t \in TaskIds |-> JNull]
    /\ fs = {}
    /\ llm_calls = {}
    /\ http = NoExchange

Init ==
    /\ ServerInit
    /\ input = IdleInput
    /\ result = IdleResult

\* the endpoints that touch the task table, and the background task
TaskNext ==
    \/ \E text \in Texts, p \in Providers, f \in Filenames : GenerateFull(text, p, f)
    \/ \E t \in TaskIds \cup {0} : GetGenerationStatus(t)
    \/ \E t \in TaskIds \cup {0} : DownloadPresentation(t)
    \/ \E t \in TaskIds : BgBegin(t)
    \/ \E t \in TaskIds, o \in SaveOutcomes : BgSaveTemplate(t, o)
    \/ \E t \in TaskIds : BgLLM(t)
    \/ \E t \in TaskIds, b \in BackendResults : BgLLMReturn(t, b)
    \/ \E t \in TaskIds, o \in RenderOutcomes : BgRender(t, o)
    \/ \E t \in TaskIds, o \in CleanupOutcomes : BgCleanup(t, o)

TaskSpec == Init /\ [][TaskNext]_vars

Next ==
    \/ \E text \in Texts, p \in Providers, b \in BackendResults : ProcessText(text, p, b)
    \/ \E text \in Texts, p \in Providers, f \in Filenames : GenerateFull(text, p, f)
    \/ \E t \in TaskIds \cup {0} : GetGenerationStatus(t)
    \/ \E t \in TaskIds \cup {0} : DownloadPresentation(t)
    \/ \E t \in TaskIds : BgBegin(t)
    \/ \E t \in TaskIds, o \in SaveOutcomes : BgSaveTemplate(t, o)
    \/ \E t \in TaskIds : BgLLM(t)
    \/ \E t \in TaskIds, b \in BackendResults : BgLLMReturn(t, b)
    \/ \E t \in TaskIds, o \in RenderOutcomes : BgRender(t, o)
    \/ \E t \in TaskIds, o \in CleanupOutcomes : BgCleanup(t, o)

Spec == Init /\ [][Next]_vars

-----------------------------------------------------------------------------
(* The outline generator alone, on every backend result of Inputs *)

ParseInit ==
    /\ ServerInit
    /\ input \in Inputs
    /\ result = IdleResult

\* _parse_llm_response called on the text of the input
ParseResponse ==
    /\ result.op = "idle"
    /\ input.backend.kind = "text"
    /\ result' = [op |-> "_parse_llm_response",
                  out |-> [ok |-> _parse_llm_response(input.backend.text).ok,
                           value |-> _parse_llm_response(input.backend.text).value,
                           err |-> _parse_llm_response(input.backend.text).err,
                           parsed |-> TRUE]]
    /\ UNCHANGED <<serverVars, input>>

\* process_text_to_slides of a service of the provider, the backend
\* producing the input
ProcessResponse(provider) ==
    /\ result.op = "idle"
    /\ result' = [op |-> "process_text_to_slides",
                  out |-> process_text_to_slides(provider, input.backend)]
    /\ UNCHANGED <<serverVars, input>>

\* lines 208-230 run once more, on the outline that was returned
ValidateAgain ==
    /\ result.op \in {"_parse_llm_response", "process_text_to_slides"}
    /\ result.out.ok
    /\ result' = [op |-> "validate_again",
                  out |-> [ok |-> validate_structure(result.out.value).ok,
                           value |-> validate_structure(result.out.value).value,
                           err |-> validate_structure(result.out.value).err,
                           parsed |-> TRUE]]
    /\ UNCHANGED <<serverVars, input>>

\* lines 185-189, then the two trims of lines 191-201 in the order of the
\* code and in the opposite order
TrimBothOrders ==
    /\ result.op = "idle"
    /\ input.backend.kind = "text"
    /\ result' = [op |-> "trims",
                  out |-> [ok |-> FALSE, value |-> JNull, parsed |-> FALSE,
                           err |-> << RemoveAfter(RemoveBefore(
                                          RemoveFences(strip(input.backend.text)))),
                                      RemoveBefore(RemoveAfter(
                                          RemoveFences(strip(input.backend.text)))) >>]]
    /\ UNCHANGED <<serverVars, input>>

ParseNext ==
    \/ TrimBothOrders
    \/ ParseResponse
    \/ \E p \in SupportedProviders : ProcessResponse(p)
    \/ ValidateAgain

ParseSpec == ParseInit /\ [][ParseNext]_vars

-----------------------------------------------------------------------------
(* Properties of the server *)

\* e occurs in msg as a contiguous piece
Contains(msg, e) ==
    \E i \in 1..(Len(msg) - Len(e) + 1) : SubSeq(msg, i, i + Len(e) - 1) = e

Known(t) == t \in DOMAIN generation_tasks

StatusValues == {"started", "processing", "completed", "failed"}

\* C1: the download endpoint answers with the file only for a task whose
\* status is completed when the request is served; for a known task that is
\* started, processing or failed it answers 400 without a file, and for an
\* unknown task_id it answers 404.
C1_DownloadOnlyWhenCompleted ==
    [][\A id \in TaskIds \cup {0} :
          DownloadPresentation(id) =>
             /\ http'.body.kind = "file" =>
                   Known(id) /\ generation_tasks[id].status = "completed"
             /\ (Known(id) /\ generation_tasks[id].status \in {"started", "processing", "failed"}) =>
                   http'.code = 400 /\ http'.body = NoBody
             /\ ~Known(id) => http'.code = 404 /\ http'.body = NoBody]_vars

\* a download answered with the file of a completed task
C1_Witness ==
    /\ http.op = "download"
    /\ http.code = 200
    /\ http.body.kind = "file"
    /\ http.body.path = output_path(http.task)
    /\ generation_tasks[http.task].status = "completed"

\* C2: every entry of the task table has a status among started, processing,
\* completed, failed and an integer progress in 0..100, and so has every
\* answer of the status endpoint.
C2_StatusAndProgressInRange ==
    /\ \A t \in DOMAIN generation_tasks :
          /\ generation_tasks[t].status \in StatusValues
          /\ generation_tasks[t].progress \in 0..100
    /\ (http.op = "generation-status" /\ http.code = 200) =>
          /\ http.body.status \in StatusValues
          /\ http.body.progress \in 0..100

\* the status endpoint reported a failed task while another entry is mid-way
C2_Witness ==
    /\ http.op = "generation-status"
    /\ http.code = 200
    /\ http.body.status = "failed"
    /\ \E t \in DOMAIN generation_tasks :
          generation_tasks[t].status = "processing" /\ generation_tasks[t].progress = 70

\* the step recorded the failure e of task t and answered no request with it
RecordedFailure(t, e) ==
    /\ generation_tasks'[t].status = "failed"
    /\ Contains(generation_tasks'[t].message, e)
    /\ e # <<>>
    /\ http' = http
    /\ pc'[t] = "done"

\* C3: a failure inside the background task (saving the template, building
\* the client or calling the backend, parsing the outline, rendering the
\* deck, deleting the template) is not raised to a caller: it is recorded in
\* the task's entry as status failed with a message containing its text.
C3_BackgroundFailureRecorded ==
    [][\A t \in TaskIds :
          /\ \A o \in SaveOutcomes \ {"saved"} :
                BgSaveTemplate(t, o) => RecordedFailure(t, save_error(o))
          /\ \A o \in RenderOutcomes \ {"rendered"} :
                BgRender(t, o) => RecordedFailure(t, render_error(o))
          /\ \A o \in CleanupOutcomes \ {"unlinked"} :
                BgCleanup(t, o) => RecordedFailure(t, cleanup_error(o))
          /\ (BgLLM(t) /\ ~LLMService(task_args[t].llm_provider).ok) =>
                RecordedFailure(t, LLMService(task_args[t].llm_provider).err)
          /\ \A b \in BackendResults :
                (BgLLMReturn(t, b) /\ ~TaskOutcome(t, b).ok) =>
                   RecordedFailure(t, TaskOutcome(t, b).err)]_vars

\* a task whose backend call failed, with the backend's words in its entry
C3_Witness ==
    \E t \in DOMAIN generation_tasks :
       /\ pc[t] = "done"
       /\ generation_tasks[t].status = "failed"
       /\ Contains(generation_tasks[t].message, <<"rate", " ", "limit">>)

TooShort(text) == Len(strip(text)) < MinTextLen

PostEndpoints == {"process-text", "generate-presentation"}

\* C4: on both POST endpoints a text of fewer than 20 characters after
\* trimming is answered with an error, and the step that answers it builds
\* no LLM client, calls no backend and starts no task.
C4_ShortTextRejectedFirst ==
    [][(http' # http /\ http'.op \in PostEndpoints /\ TooShort(http'.text)) =>
          /\ http'.code >= 400
          /\ http'.events = <<>>
          /\ llm_calls' = llm_calls
          /\ generation_tasks' = generation_tasks
          /\ pc' = pc]_vars

\* the outline-only endpoint refused a short text, while a task of an
\* accepted request exists
C4_Witness ==
    /\ http.op = "process-text"
    /\ TooShort(http.text)
    /\ Len(http.text) >= MinTextLen
    /\ http.code >= 400
    /\ Contains(http.detail, <<"Text must be at least 20 characters">>)
    /\ http.events = <<>>
    /\ DOMAIN generation_tasks # {}

\* C5: at every entry point a provider that is not one of openai, anthropic,
\* gemini fails with the unsupported-provider error and causes no backend
\* call: at the outline-only endpoint, at LLMService construction, and for a
\* task started by the full-generation endpoint.
C5_UnsupportedProviderNeverCalls ==
    [][/\ \A text \in Texts, p \in Providers \ SupportedProviders, b \in BackendResults :
             ProcessText(text, p, b) => http'.code >= 400 /\ http'.events = <<>>
       /\ \A t \in TaskIds :
             (BgLLM(t) /\ task_args[t].llm_provider \notin SupportedProviders) =>
                /\ ~LLMService(task_args[t].llm_provider).ok
                /\ t \notin llm_calls'
                /\ generation_tasks'[t].status = "failed"
                /\ Contains(generation_tasks'[t].message, <<"Unsupported LLM provider: ">>)]_vars

-----------------------------------------------------------------------------
(* Properties of the outline generator *)

\* _parse_llm_response ran on the text of the input
ParserRan ==
    \/ result.op = "_parse_llm_response"
    \/ result.op = "process_text_to_slides" /\ result.out.parsed

\* what _parse_llm_response gave, without the wrapping of its caller
ParserOut ==
    [ok |-> result.out.ok, value |-> result.out.value,
     err |-> IF result.op = "process_text_to_slides" /\ ~result.out.ok
             THEN Tail(result.out.err) ELSE result.out.err]

InvalidJson == "Invalid JSON from LLM. Response started with: "
FailedToParse == "Failed to parse LLM response: "

\* the error without the echo of the response it was raised for
FailureClass(err) ==
    IF err # <<>> /\ err[1] = InvalidJson THEN <<InvalidJson>> ELSE err

SameResult(a, b) ==
    /\ a.ok = b.ok
    /\ a.value = b.value
    /\ FailureClass(a.err) = FailureClass(b.err)

\* the response is the JSON text of the document, possibly inside whitespace
IsJsonResponse == input.form \in {"bare", "padded"}

\* out is the outline of the document raw after defaulting: as many slides in
\* the same order, each with its own fields untouched and with title and
\* speaker_notes filled in by index, and the title of the outline filled in
Defaulted(raw, out) ==
    /\ out.ok
    /\ out.value.k = "obj"
    /\ \A key \in DOMAIN raw.o \ {Py("slides")} :
          key \in DOMAIN out.value.o /\ out.value.o[key] = raw.o[key]
    /\ Py("title") \notin DOMAIN raw.o =>
          out.value.o[Py("title")] = JStr(<<"Generated Presentation">>)
    /\ out.value.o[Py("slides")].k = "arr"
    /\ LET given == raw.o[Py("slides")].a
           slides == out.value.o[Py("slides")].a
       IN  /\ Len(slides) = Len(given)
           /\ \A i \in 1..Len(given) :
                 /\ slides[i].k = "obj"
                 /\ given[i].k = "obj"
                 /\ \A key \in DOMAIN given[i].o :
                       key \in DOMAIN slides[i].o /\ slides[i].o[key] = given[i].o[key]
                 /\ Py("title") \notin DOMAIN given[i].o =>
                       slides[i].o[Py("title")] = JStr(<<"Slide ", Digits[i + 1]>>)
                 /\ Py("speaker_notes") \notin DOMAIN given[i].o =>
                       slides[i].o[Py("speaker_notes")] =
                          JStr(<<"Notes for slide ", Digits[i + 1]>>)

\* C6: for every response that is a JSON object with a non-empty slides
\* array, the outline has as many slides as the array in the same order, its
\* title defaults to Generated Presentation, the slide at index i gets the
\* title Slide i+1 and the notes Notes for slide i+1 when it lacks them, and
\* the fields that are present are unchanged.
C6_DefaultingOnEveryOutline ==
    (ParserRan /\ IsJsonResponse /\ input.doc \in OutlineDocs) =>
       Defaulted(ToValue(input.doc), ParserOut)

RECURSIVE HasFenceRun(_)
\* a string somewhere in the document holds six backticks in a row
HasFenceRun(v) ==
    CASE v.k = "str"  -> Contains(v.s, SixBackticks)
      [] v.k = "arr"  -> \E i \in 1..Len(v.a) : HasFenceRun(v.a[i])
      [] v.k = "oobj" -> \E i \in 1..Len(v.m) : HasFenceRun(v.m[i][2])
      [] OTHER -> FALSE

\* the slides of the document are all objects
ObjectSlides(doc) ==
    \A i \in 1..Len(doc.m) :
       doc.m[i][1] = Py("slides") =>
          \A j \in 1..Len(doc.m[i][2].a) : doc.m[i][2].a[j].k = "oobj"

\* the defaulting of C6 where it does hold: every slide an object and no run
\* of six backticks in the text
C6_DefaultingOnObjectSlides ==
    (/\ ParserRan /\ IsJsonResponse /\ input.doc \in OutlineDocs
     /\ ObjectSlides(input.doc) /\ ~HasFenceRun(input.doc)) =>
       Defaulted(ToValue(input.doc), ParserOut)

\* the response {"slides":[{"type":"title","title":"Hi"}]} gave the title
\* Generated Presentation and the one slide with Notes for slide 1
C6_Example ==
    /\ ParserRan
    /\ input.backend = BackendText(JsonText(SlidesDoc(<<SlideHi>>, FALSE), <<>>))
    /\ result.out.ok
    /\ result.out.value =
          JObj(DictSet(DictSet(EmptyDict, Py("title"), JStr(<<"Generated Presentation">>)),
                       Py("slides"),
                       JArr(<<JObj(DictSet(DictSet(DictSet(EmptyDict,
                                  Py("type"), JStr(Py("title"))),
                                  Py("title"), JStr(Py("Hi"))),
                                  Py("speaker_notes"), JStr(<<"Notes for slide ", "1">>)))>>)))

\* C7: a response whose JSON root is not an object, or is an object without
\* slides, or with slides that is not a non-empty list, fails with an error
\* that is not the one of a JSON syntax failure, and yields no outline.
C7_BadRootNeverYieldsOutline ==
    (ParserRan /\ IsJsonResponse /\ input.doc \in NonObjectDocs \cup BadObjectDocs) =>
       /\ ~ParserOut.ok
       /\ ParserOut.err[1] = FailedToParse

RECURSIVE HasObject(_)
\* an object occurs in the document, or a brace in one of its strings
HasObject(v) ==
    CASE v.k = "oobj" -> TRUE
      [] v.k = "str"  -> \E i \in 1..Len(v.s) : v.s[i] \in {"{", "}"}
      [] v.k = "arr"  -> \E i \in 1..Len(v.a) : HasObject(v.a[i])
      [] OTHER -> FALSE

\* the rejection of C7 where it does hold: an object root, or a root whose
\* text holds no brace
C7_BadRootWithoutInnerBraces ==
    (/\ ParserRan /\ IsJsonResponse
     /\ input.doc \in NonObjectDocs \cup BadObjectDocs
     /\ (input.doc.k = "oobj" \/ ~HasObject(input.doc))) =>
       /\ ~ParserOut.ok
       /\ ParserOut.err[1] = FailedToParse
       /\ ParserOut.err[2] \in {"Response is not a JSON object",
                                "No 'slides' key found in response",
                                "'slides' must be a non-empty array"}

\* the backend produced None, or a text of nothing but whitespace
BlankResponse ==
    \/ input.backend.kind = "none"
    \/ /\ input.backend.kind = "text"
       /\ \A i \in 1..Len(input.backend.text) : input.backend.text[i] \in Whitespace

\* C8: an empty, null or whitespace-only backend response makes
\* process_text_to_slides fail with the wrapped Empty response error without
\* calling _parse_llm_response, and _parse_llm_response itself answers such a
\* text with its own Empty response error.
C8_EmptyResponseFails ==
    /\ (result.op = "process_text_to_slides" /\ BlankResponse) =>
          /\ ~result.out.ok
          /\ result.out.err = <<"LLM processing failed: ", "Empty response from LLM">>
          /\ ~result.out.parsed
    /\ (result.op = "_parse_llm_response" /\ BlankResponse) =>
          /\ ~result.out.ok
          /\ result.out.err = <<FailedToParse, "Empty response from LLM">>

\* process_text_to_slides failed on a response of whitespace only
C8_Witness ==
    /\ result.op = "process_text_to_slides"
    /\ input.backend = BackendText(<<NL, " ", "\t">>)
    /\ ~result.out.ok
    /\ ~result.out.parsed
    /\ Contains(result.out.err, <<"Empty response from LLM">>)

\* the response is the JSON object text of the input between an opening
\* fence, with or without a language tag, and a closing fence
IsFencedObject ==
    /\ input.doc.k = "oobj"
    /\ input.inner = JsonText(input.doc, <<>>)
    /\ input.backend.kind = "text"
    /\ \E tag \in {<<>>, <<"json">>} :
          input.backend.text = Fence \o tag \o <<NL>> \o input.inner \o <<NL>> \o Fence

\* C9: a JSON object text between an opening triple-backtick fence, with or
\* without a language tag, and a closing fence, each on its own line, is
\* parsed to the same result as the object text alone: the same outline, or
\* the same failure.
C9_FencedParsesAsBare ==
    (ParserRan /\ IsFencedObject) =>
       SameResult(ParserOut, _parse_llm_response(input.inner))

\* a fenced outline with a language tag was parsed to an outline of two slides
C9_Witness ==
    /\ ParserRan
    /\ IsFencedObject
    /\ input.backend.text[4] = "json"
    /\ result.out.ok
    /\ Len(result.out.value.o[Py("slides")].a) = MaxSlides

\* 0-based positions of the first { and of the last } of the response
FirstBrace == find(input.backend.text, "{")
LastBrace == rfind(input.backend.text, "}")

\* the response has text before its first { and text after its last }
HasProseAround ==
    /\ input.backend.kind = "text"
    /\ FirstBrace > 0
    /\ LastBrace >= 0
    /\ LastBrace < Len(input.backend.text) - 1

\* the part of the response from its first { to its last }, as
\* response[FirstBrace : LastBrace + 1]
BraceSubstring == SubSeq(input.backend.text, FirstBrace + 1, LastBrace + 1)

\* C10: a response with text before its first { and text after its last }
\* is parsed to the same outline as the substring from the first { to the
\* last } alone, and to no outline when that substring gives none.
C10_ProseAroundParsesAsSubstring ==
    (ParserRan /\ HasProseAround) =>
       /\ ParserOut.ok = _parse_llm_response(BraceSubstring).ok
       /\ ParserOut.value = _parse_llm_response(BraceSubstring).value

\* an outline read out of prose on both sides of the object
C10_Witness ==
    /\ ParserRan
    /\ HasProseAround
    /\ input.form = "prose"
    /\ input.backend.text[1] = "Here"
    /\ BraceSubstring = input.inner
    /\ result.out.ok
    /\ Len(result.out.value.o[Py("slides")].a) = 1

\* the slides of the outline that was returned
OutSlides == result.out.value.o[Py("slides")].a

\* the slides array of the document of the input, as values
GivenSlides == ToValue(input.doc).o[Py("slides")].a

\* an outline was returned for a response that is the JSON text of an
\* outline document
OutlineReturned ==
    ParserRan /\ IsJsonResponse /\ input.doc \in OutlineDocs /\ result.out.ok

OnePlaceholder == JArr(<<JStr(<<"Main point for this slide">>)>>)

\* C11: every slide of type content of a returned outline carries a
\* non-empty content list, and where the slide of the response has no content
\* or an empty list, the content is exactly the one placeholder bullet.
C11_ContentNeverEmpty ==
    OutlineReturned =>
       \A i \in 1..Len(OutSlides) :
          OutSlides[i].o[Py("type")] = JStr(Py("content")) =>
             /\ Py("content") \in DOMAIN OutSlides[i].o
             /\ OutSlides[i].o[Py("content")].k = "arr"
             /\ Len(OutSlides[i].o[Py("content")].a) > 0
             /\ (\/ Py("content") \notin DOMAIN GivenSlides[i].o
                 \/ GivenSlides[i].o[Py("content")] = JArr(<<>>)) =>
                   OutSlides[i].o[Py("content")] = OnePlaceholder

\* the part of C11 about a missing content: a slide of type content, given
\* or defaulted, without content in the response gets the one placeholder
C11_MissingContentGetsPlaceholder ==
    OutlineReturned =>
       \A i \in 1..Len(OutSlides) :
          (/\ OutSlides[i].o[Py("type")] = JStr(Py("content"))
           /\ Py("content") \notin DOMAIN GivenSlides[i].o) =>
             OutSlides[i].o[Py("content")] = OnePlaceholder

\* a slide without type and content came out as a content slide with the
\* placeholder
C11_PlaceholderReached ==
    /\ OutlineReturned
    /\ input.doc = SlidesDoc(<<SlideBare>>, FALSE)
    /\ OutSlides[1].o[Py("type")] = JStr(Py("content"))
    /\ OutSlides[1].o[Py("content")] = OnePlaceholder

SlideTypes == {JStr(Py("title")), JStr(Py("section")), JStr(Py("content"))}

\* C12: every slide of a returned outline has a type among title, section,
\* content; a slide whose type is missing or is anything else in the response
\* comes out with type content.
C12_TypeInClosedSet ==
    OutlineReturned =>
       \A i \in 1..Len(OutSlides) :
          /\ OutSlides[i].o[Py("type")] \in SlideTypes
          /\ (\/ Py("type") \notin DOMAIN GivenSlides[i].o
              \/ GivenSlides[i].o[Py("type")] \notin SlideTypes) =>
                OutSlides[i].o[Py("type")] = JStr(Py("content"))

\* the part of C12 about a missing type: it comes out as content
C12_MissingTypeBecomesContent ==
    OutlineReturned =>
       \A i \in 1..Len(OutSlides) :
          Py("type") \notin DOMAIN GivenSlides[i].o =>
             OutSlides[i].o[Py("type")] = JStr(Py("content"))

\* C13: validation is idempotent: the pass applied to an outline that it
\* returned gives that same outline, with no field added, changed or removed.
C13_ValidationIdempotent ==
    [][ValidateAgain =>
          /\ result'.out.ok
          /\ result'.out.value = result.out.value]_vars

\* the pass ran again on an outline whose title, type, notes and content it
\* had filled in
C13_Witness ==
    /\ result.op = "validate_again"
    /\ result.out.ok
    /\ input.doc = SlidesDoc(<<SlideBare, SlideHi>>, FALSE)
    /\ OutSlides[1].o[Py("content")] = OnePlaceholder
    /\ OutSlides[1].o[Py("title")] = JStr(<<"Slide ", "1">>)
    /\ OutSlides[2].o[Py("speaker_notes")] = JStr(<<"Notes for slide ", "2">>)

\* C14: with two or more generation tasks interleaved, a step of one task
\* (its start by the endpoint, or a step of its background coroutine) changes
\* only the entry of that task and only files whose path holds its task_id;
\* the entry, the arguments and the files of every other task stay as they
\* are.
C14_TasksIsolated ==
    [][\A t \in TaskIds :
          pc'[t] # pc[t] =>
             /\ DOMAIN generation_tasks' \subseteq DOMAIN generation_tasks \cup {t}
             /\ \A u \in DOMAIN generation_tasks \ {t} :
                   u \in DOMAIN generation_tasks' /\ generation_tasks'[u] = generation_tasks[u]
             /\ \A f \in (fs' \ fs) \cup (fs \ fs') : f.task = t
             /\ \A u \in TaskIds \ {t} :
                   /\ pc'[u] = pc[u]
                   /\ task_args'[u] = task_args[u]
                   /\ slide_structure'[u] = slide_structure[u]]_vars

\* one task is over and completed, its template deleted and its deck in
\* place, while the backend call of the other is in flight with its template
\* saved
C14_Witness ==
    /\ pc[1] = "done" /\ generation_tasks[1].status = "completed"
    /\ pc[2] = "calling" /\ generation_tasks[2].progress = 30
    /\ fs = {output_path(1), template_path(2)}

\* the backend call of task t is in flight
InFlight(t) == pc[t] = "calling"

\* the status endpoint can be served for every task_id
CanPoll == \A u \in TaskIds \cup {0} : ENABLED GetGenerationStatus(u)

\* C15: for each of the three providers, while the backend call of a task
\* is in flight the event loop can still serve other requests, such as a
\* status poll for another task.
C15_LoopFreeDuringBackendCall ==
    \A t \in TaskIds : InFlight(t) => CanPoll

\* the part of C15 that holds: the calls handed to an executor, by the
\* anthropic and gemini backends, while no task is in its final cleanup
C15_ExecutorCallsLeaveLoopFree ==
    (/\ \E t \in TaskIds : InFlight(t)
     /\ \A u \in TaskIds : InFlight(u) => ~CallsInline(task_args[u].llm_provider)
     /\ \A u \in TaskIds : pc[u] # "cleanup") => CanPoll

\* an anthropic call and a gemini call are in flight together
C15_ExecutorCallsInFlight ==
    /\ InFlight(1) /\ task_args[1].llm_provider = "anthropic"
    /\ InFlight(2) /\ task_args[2].llm_provider = "gemini"
    /\ CanPoll

-----------------------------------------------------------------------------
(* ppt_service.py: the renderer.  A deck is the sequence of its slides; what *)
(* python-pptx does to it (load, drop a slide, add a slide, fill a           *)
(* placeholder, save) succeeds or raises, as the environment decides.       *)

\* dict.get(key, default) on a slide of the outline
dict_get(d, key, default) == IF key \in DOMAIN d THEN d[key] ELSE default

\* a slide that came with the template
TemplateSlide(n) == [from |-> "template", n |-> n]

\* the slides of the template file
TemplateDeck(n) == [i \in 1..n |-> TemplateSlide(i)]

\* lines 163-175: the slides are dropped from the last to the first; when
\* dropping slide number fail_at raises, the except clause ends the loop and
\* the slides up to fail_at stay (fail_at = 0: nothing raises)
_clear_existing_slides(slides, fail_at) == SubSeq(slides, 1, fail_at)

\* lines 182-189: the creator chosen for the type of the slide
creator_of(slide_data) ==
    LET slide_type == dict_get(slide_data, Py("type"), JStr(Py("content")))
    IN  IF slide_type = JStr(Py("title")) THEN "title"
        ELSE IF slide_type = JStr(Py("section")) THEN "section"
        ELSE "content"

\* what may happen inside a creator: everything works, _get_best_layout or
\* add_slide raises, or something raises once the slide is added
CreateOutcomes == {"created", "add_fails", "fill_fails"}

\* lines 191-259: _create_title_slide, _create_section_slide and
\* _create_content_slide on entry number entry of the outline; each catches
\* what is raised and logs it
_create_slide(deck, slide_data, entry, outcome) ==
    IF outcome = "add_fails" THEN deck
    ELSE Append(deck, [from |-> "outline", entry |-> entry,
                       layout |-> creator_of(slide_data),
                       title |-> IF outcome = "created"
                                 THEN dict_get(slide_data, Py("title"), JStr(Py("Slide Title")))
                                 ELSE JNull])

RECURSIVE generate_from(_, _, _, _)
\* the loop of lines 181-189 from entry number entry on
generate_from(deck, slides_data, outcomes, entry) ==
    IF entry > Len(slides_data) THEN deck
    ELSE generate_from(_create_slide(deck, slides_data[entry].o, entry, outcomes[entry]),
                       slides_data, outcomes, entry + 1)

\* lines 177-189
_generate_slides_from_structure(deck, structure, outcomes) ==
    generate_from(deck, dict_get(structure, Py("slides"), JArr(<<>>)).a, outcomes, 1)

\* lines 18-44: env tells what the environment does: whether the template
\* loads, where clearing raises, what happens in each creator, whether the
\* deck saves; the value returned is the deck saved at output_path
create_presentation_from_template(structure, template, env) ==
    IF ~env.loads
    THEN Raise(<<"Presentation creation failed: ", "Package not found">>)
    ELSE IF ~env.saves
    THEN Raise(<<"Presentation creation failed: ", "[Errno 13] Permission denied">>)
    ELSE Return(_generate_slides_from_structure(
                    _clear_existing_slides(template, env.clear_fails_at),
                    structure, env.creators))

\* validated slides, one for each creator and one of an unknown type
RenderSlides ==
    {JObj(fix_slide(ToValue(sl).o, 0)) : sl \in {SlideHi, SlideSection, SlideFull, SlideChart}}

\* validated outlines
RenderOutlines ==
    {DictSet(DictSet(EmptyDict, Py("title"), JStr(Py("Deck"))), Py("slides"), JArr(sl)) :
        sl \in SeqsUpTo(RenderSlides, MaxSlides)}

RenderInputs ==
    UNION {
      {[kind |-> "render", outline |-> o, template |-> TemplateDeck(n),
        env |-> [loads |-> l, saves |-> sv, clear_fails_at |-> c, creators |-> cr]] :
          l \in BOOLEAN, sv \in BOOLEAN, c \in 0..n,
          cr \in [1..Len(o[Py("slides")].a) -> CreateOutcomes]} :
      o \in RenderOutlines, n \in 0..MaxTemplateSlides }

RenderInit ==
    /\ ServerInit
    /\ input \in RenderInputs
    /\ result = IdleResult

\* create_presentation_from_template called on the input
CreatePresentation ==
    /\ result.op = "idle"
    /\ result' = [op |-> "create_presentation_from_template",
                  out |-> create_presentation_from_template(
                             input.outline, input.template, input.env)]
    /\ UNCHANGED <<serverVars, input>>

RenderNext == CreatePresentation

RenderSpec == RenderInit /\ [][RenderNext]_vars

\* the call returned a deck
DeckSaved == result.op = "create_presentation_from_template" /\ result.out.ok

Deck == result.out.value

Entries == input.outline[Py("slides")].a

\* C16: when create_presentation_from_template returns, the saved deck holds
\* exactly one slide for each entry of the outline, in the order of the
\* outline, and no slide of the template, whatever failed while clearing,
\* constructing or styling a slide.
C16_OneSlidePerEntry ==
    DeckSaved =>
       /\ Len(Deck) = Len(Entries)
       /\ \A i \in 1..Len(Deck) : Deck[i].from = "outline" /\ Deck[i].entry = i

\* the part of C16 that holds: when clearing does not raise and every slide
\* is added, the deck is one slide per entry in order, also when filling or
\* styling a slide fails
C16_OneSlidePerEntryWhenAdded ==
    (/\ DeckSaved
     /\ input.env.clear_fails_at = 0
     /\ \A i \in 1..Len(Entries) : input.env.creators[i] # "add_fails") =>
       /\ Len(Deck) = Len(Entries)
       /\ \A i \in 1..Len(Deck) :
             /\ Deck[i].from = "outline" /\ Deck[i].entry = i
             /\ Deck[i].layout = creator_of(Entries[i].o)

\* a deck of two slides was saved from a template of two slides, the
\* filling of the second slide having failed
C16_StylingFailureReached ==
    /\ DeckSaved
    /\ Len(input.template) = 2
    /\ input.env.clear_fails_at = 0
    /\ input.env.creators = <<"created", "fill_fails">>
    /\ Len(Deck) = 2
    /\ Deck[2].title = JNull

-----------------------------------------------------------------------------
(* The credential: one full generation followed from the request to the end *)
(* of the background task, with the lines it logs, for a given credential   *)
(* and given outcomes of the environment.                                   *)

\* llm_service.py:16-28: what the service keeps of its arguments
LLMClient(provider, api_key) == [provider |-> lower(provider), api_key |-> api_key]

\* setup_log with the credential in the line
setup_log_with_key(client) ==
    IF client.provider \in SupportedProviders
    THEN << <<"Successfully initialized ", client.provider, " client", client.api_key>> >>
    ELSE << <<"Failed to setup ", client.provider, " client: ",
              "Unsupported LLM provider: ", client.provider>> >>

\* llm_service.py:33 and 36: the line _setup_client logs
setup_log(client) ==
    IF client.provider \in SupportedProviders
    THEN << <<"Successfully initialized ", client.provider, " client">> >>
    ELSE << <<"Failed to setup ", client.provider, " client: ",
              "Unsupported LLM provider: ", client.provider>> >>

\* llm_service.py:108-124, 130-148, 154-173: the lines of the backend call
backend_log(client, backend) ==
    << <<"Calling ", ProviderLabel(client.provider), " API...">> >>
    \o (IF backend.kind = "error"
        THEN << <<ProviderLabel(client.provider), " API error: ">> \o backend.text >>
        ELSE << <<ProviderLabel(client.provider), " response received: ",
                  Len(backend.text), " characters">> >>)

\* llm_service.py:48-72 and 233-237: the lines process_text_to_slides and
\* _parse_llm_response log at level INFO and above, r being what
\* process_text_to_slides gives; the two lines of the repairs (195, 201) are
\* functions of the response alone and are left out
process_log(client, backend, r) ==
    << <<"Processing with ", client.provider, "...">> >>
    \o backend_log(client, backend)
    \o (IF backend.kind = "error" THEN <<>>
        ELSE << <<"Raw LLM response length: ", Len(backend.text)>> >>)
    \o (IF r.parsed /\ ~r.ok THEN << Tail(r.err) >> ELSE <<>>)
    \o (IF r.ok
        THEN << <<"Successfully parsed ", Len(r.value.o[Py("slides")].a), " slides">> >>
        ELSE << r.err >>)

\* main.py:250
failure_log(e) == << <<"Generation failed for task ", "task_id", ": ">> \o e >>

\* the entry main.py:113-119 creates, in a table of its own
StartedTable ==
    [t \in {1} |-> [status |-> "started", progress |-> 0,
                    message |-> <<"Starting presentation generation...">>,
                    file_path |-> NoPath]]

Run(entry, log) == [entry |-> entry, log |-> log]

\* main.py:216-255: the task once process_text_to_slides is over with r,
\* logs being the lines logged so far; env gives the outcomes of the
\* renderer and of os.unlink
generation_after_llm(env, r, logs) ==
    IF ~r.ok
    THEN Run(failed(1, StartedTable, r.err)[1], logs \o failure_log(r.err))
    ELSE IF env.render # "rendered"
    THEN Run(failed(1, StartedTable, render_error(env.render))[1],
             logs \o << <<"Failed to create presentation: ", "Package not found">> >>
                  \o failure_log(render_error(env.render)))
    ELSE IF env.cleanup # "unlinked"
    THEN Run(failed(1, completed(1, StartedTable), cleanup_error(env.cleanup))[1],
             logs \o << <<"Presentation saved to ", output_path(1)>> >>
                  \o failure_log(cleanup_error(env.cleanup)))
    ELSE Run(completed(1, StartedTable)[1],
             logs \o << <<"Presentation saved to ", output_path(1)>> >>)

\* main.py:212-255: the task from the LLM step on, r being what
\* process_text_to_slides gives for the backend's answer
generation_from_llm(client, env, r) ==
    generation_after_llm(env, r, setup_log(client) \o process_log(client, env.backend, r))

\* main.py:180-255: the entry of the task when the coroutine is over, and
\* the lines logged on the way; client is the service built from the
\* arguments, env the outcomes of the save, the backend, the renderer and
\* os.unlink
full_generation(client, env) ==
    IF env.save # "saved"
    THEN Run(failed(1, StartedTable, save_error(env.save))[1],
             failure_log(save_error(env.save)))
    ELSE IF client.provider \notin SupportedProviders
    THEN Run(failed(1, StartedTable, LLMService(client.provider).err)[1],
             setup_log(client) \o failure_log(LLMService(client.provider).err))
    ELSE generation_from_llm(client, env, OutlineOutcome[client.provider][env.backend])

\* credentials of two requests
ApiKeys == {"sk-A", "sk-B"}

KeyInputs ==
    {[kind |-> "keys", api_key |-> k, other_key |-> o, llm_provider |-> p,
      env |-> [save |-> sv, backend |-> b, render |-> r, cleanup |-> c]] :
        k \in ApiKeys, o \in ApiKeys, p \in Providers, sv \in SaveOutcomes,
        b \in BackendResults, r \in RenderOutcomes, c \in CleanupOutcomes}

KeyInit ==
    /\ ServerInit
    /\ input \in KeyInputs
    /\ result = IdleResult

\* the same request run with each of the two credentials, the environment
\* answering the same
RunWithBothKeys ==
    /\ result.op = "idle"
    /\ result' = [op |-> "full_generation",
                  out |-> <<full_generation(LLMClient(input.llm_provider, input.api_key),
                                            input.env),
                            full_generation(LLMClient(input.llm_provider, input.other_key),
                                            input.env)>>]
    /\ UNCHANGED <<serverVars, input>>

KeyNext == RunWithBothKeys

KeySpec == KeyInit /\ [][KeyNext]_vars

\* C17: two runs that differ only in the credential, with the same outcomes
\* of the backend and of the rest of the environment, log the same lines and
\* leave the same entry in the task table, also when the backend fails and
\* its error text is logged and stored as the message.
C17_CredentialNeverLoggedOrStored ==
    result.op = "full_generation" =>
       /\ result.out[1].log = result.out[2].log
       /\ result.out[1].entry = result.out[2].entry

\* two runs with different credentials whose backend call failed, the error
\* text in the log and in the entry of both
C17_Witness ==
    /\ result.op = "full_generation"
    /\ input.api_key # input.other_key
    /\ input.env.backend.kind = "error"
    /\ result.out[1].entry.status = "failed"
    /\ Contains(result.out[1].entry.message, <<"rate", " ", "limit">>)
    /\ \E i \in 1..Len(result.out[2].log) :
          Contains(result.out[2].log[i], <<"rate", " ", "limit">>)

-----------------------------------------------------------------------------
(* C18 *)

\* the text the two trims receive
Untrimmed == RemoveFences(strip(input.backend.text))

\* the last } lies before the first { and is not the first character
ClosesBeforeOpening ==
    /\ 0 < rfind(Untrimmed, "}")
    /\ rfind(Untrimmed, "}") < find(Untrimmed, "{")

\* C18 as stated: for every raw response, cutting before the first { and
\* then after the last } gives the same text as cutting in the opposite
\* order.
C18_TrimsCommute ==
    result.op = "trims" => result.out.err[1] = result.out.err[2]

\* C18, amended: the two orders give the same text unless the last } of the
\* response lies before its first { without being its first character; in
\* that case they give different texts.
C18_TrimsCommuteUnlessCloseFirst ==
    result.op = "trims" =>
        (result.out.err[1] = result.out.err[2] <=> ~ClosesBeforeOpening)

\* a response with a } in the text before the JSON and a { in the text
\* after it: both trims cut, and the two orders agree
C18_Witness ==
    /\ result.op = "trims"
    /\ input.form = "prose"
    /\ 0 < rfind(Untrimmed, "}")
    /\ find(Untrimmed, "}") < find(Untrimmed, "{")
    /\ rfind(Untrimmed, "{") > rfind(Untrimmed, "}")
    /\ Len(result.out.err[1]) < Len(RemoveBefore(Untrimmed))
    /\ Len(result.out.err[1]) < Len(RemoveAfter(Untrimmed))
    /\ result.out.err[1] = result.out.err[2]

-----------------------------------------------------------------------------
(* C19 *)

\* the task is over with the given status in its entry
EndedAs(t, status) ==
    /\ pc[t] = "done"
    /\ t \in DOMAIN generation_tasks
    /\ generation_tasks[t].status = status

\* positions of the coroutine after the template was written
AfterSave == {"llm", "calling", "render", "cleanup"}

\* C19: the template file of a task is deleted only on the success path.
\* When a task is over with status completed its template file does not
\* exist; a template file disappears only in the step that ends its task as
\* completed; a task that fails after its template was saved ends with the
\* file in place; no step removes a generated output file.
C19_TemplateDeletedOnlyOnSuccess ==
    /\ [](\A t \in TaskIds : EndedAs(t, "completed") => template_path(t) \notin fs)
    /\ [][\A t \in TaskIds :
             /\ (template_path(t) \in fs /\ template_path(t) \notin fs') =>
                   (pc'[t] = "done" /\ generation_tasks'[t].status = "completed")
             /\ (pc[t] \in AfterSave /\ pc'[t] = "done"
                   /\ generation_tasks'[t].status = "failed") =>
                   template_path(t) \in fs'
             /\ output_path(t) \in fs => output_path(t) \in fs']_vars

\* one task over and completed, its template gone and its deck in place;
\* the other over and failed after its template was saved, the template
\* still there
C19_Witness ==
    /\ EndedAs(1, "completed")
    /\ output_path(1) \in fs /\ template_path(1) \notin fs
    /\ EndedAs(2, "failed")
    /\ Contains(generation_tasks[2].message, <<"rate", " ", "limit">>)
    /\ template_path(2) \in fs

-----------------------------------------------------------------------------
(* C20 *)

\* C20: completed is an absorbing status: once the entry of a task has
\* status completed, no later step changes its status, progress or
\* file_path.
C20_CompletedIsAbsorbing ==
    [][\A t \in DOMAIN generation_tasks :
          generation_tasks[t].status = "completed" =>
             /\ t \in DOMAIN generation_tasks'
             /\ generation_tasks'[t].status = generation_tasks[t].status
             /\ generation_tasks'[t].progress = generation_tasks[t].progress
             /\ generation_tasks'[t].file_path = generation_tasks[t].file_path]_vars

\* what stays of C20: an entry that is completed at a moment the event loop
\* can serve a request, so that a poller can see it, never changes again
C20_CompletedSeenByPollerIsFinal ==
    [][\A t \in DOMAIN generation_tasks :
          (EventLoopFree /\ generation_tasks[t].status = "completed") =>
             /\ t \in DOMAIN generation_tasks'
             /\ generation_tasks'[t] = generation_tasks[t]]_vars

\* a task whose deck was written and whose entry went from completed to
\* failed when the template could not be deleted
C20_CompletedThenFailed ==
    \E t \in TaskIds :
       /\ EndedAs(t, "failed")
       /\ output_path(t) \in fs
       /\ generation_tasks[t].file_path = output_path(t)

-----------------------------------------------------------------------------
(* C21 *)

\* main.py:180-255: the next step of the coroutine of task t, whatever the
\* file operation, the backend call or the renderer it waits for gives
BgStep(t) ==
    \/ BgBegin(t)
    \/ \E o \in SaveOutcomes : BgSaveTemplate(t, o)
    \/ BgLLM(t)
    \/ \E b \in BackendResults : BgLLMReturn(t, b)
    \/ \E o \in RenderOutcomes : BgRender(t, o)
    \/ \E o \in CleanupOutcomes : BgCleanup(t, o)

\* TaskSpec with a scheduler that runs every queued background task and
\* with backend calls and file operations that return or raise: a step of a
\* coroutine that stays possible is taken
TaskLiveSpec == TaskSpec /\ \A t \in TaskIds : WF_vars(BgStep(t))

\* the entry of task t exists with a status in S
StatusIn(t, S) == t \in DOMAIN generation_tasks /\ generation_tasks[t].status \in S

\* C21: every task created by the full-generation endpoint eventually has
\* status completed or failed; none stays in started or processing forever.
C21_EveryTaskEnds ==
    \A t \in TaskIds :
       StatusIn(t, {"started", "processing"}) ~> StatusIn(t, {"completed", "failed"})

\* both tasks were created and are over: one failed before any backend
\* call, the other completed after its call
C21_Witness ==
    /\ pc[1] = "done" /\ StatusIn(1, {"failed"})
    /\ pc[2] = "done" /\ StatusIn(2, {"completed"})
    /\ llm_calls = {2}

-----------------------------------------------------------------------------
(* C22 *)

\* main.py:115, 193, 208, 222: the progress values of a task under way, in
\* the order of the code
ProgressSteps == <<0, 10, 30, 70>>

\* the place of a progress value in ProgressSteps
StepOf(p) == CHOOSE i \in 1..Len(ProgressSteps) : ProgressSteps[i] = p

Underway == {"started", "processing"}

\* C22: along the history of a task the progress never decreases while the
\* status is started or processing, taking the values 0, 10, 30, 70 in that
\* order; it is 100 exactly when the status is completed; it goes down only
\* in the step to failed, which sets it to 0.
C22_ProgressMonotone ==
    /\ [](\A t \in DOMAIN generation_tasks :
             /\ generation_tasks[t].status = "started" => generation_tasks[t].progress = 0
             /\ generation_tasks[t].status = "processing" =>
                   generation_tasks[t].progress \in {10, 30, 70}
             /\ generation_tasks[t].status = "completed" <=>
                   generation_tasks[t].progress = 100)
    /\ [][\A t \in DOMAIN generation_tasks :
             /\ t \in DOMAIN generation_tasks'
             /\ generation_tasks'[t].status \in Underway =>
                   /\ generation_tasks[t].status \in Underway
                   /\ StepOf(generation_tasks'[t].progress)
                         \in {StepOf(generation_tasks[t].progress),
                              StepOf(generation_tasks[t].progress) + 1}
             /\ generation_tasks'[t].progress < generation_tasks[t].progress =>
                   /\ generation_tasks[t].status # "failed"
                   /\ generation_tasks'[t].status = "failed"
                   /\ generation_tasks'[t].progress = 0]_vars

\* one task failed in the renderer, its progress back from 70 to 0, while
\* the other is completed at 100
C22_Witness ==
    /\ StatusIn(1, {"failed"})
    /\ generation_tasks[1].progress = 0
    /\ Contains(generation_tasks[1].message, <<"Presentation creation failed: ">>)
    /\ StatusIn(2, {"completed"})
    /\ generation_tasks[2].progress = 100

-----------------------------------------------------------------------------
(* C23 *)

\* C23: whenever the status of a task is completed, its file_path is the
\* task's own output path and the file the renderer saved there exists, the
\* save having finished before the status was set; while the status is
\* started or processing the file_path is None.
C23_CompletedHasItsFile ==
    /\ [](\A t \in DOMAIN generation_tasks :
             /\ generation_tasks[t].status = "completed" =>
                   /\ generation_tasks[t].file_path = output_path(t)
                   /\ output_path(t) \in fs
             /\ generation_tasks[t].status \in Underway =>
                   generation_tasks[t].file_path = NoPath)
    /\ [][\A t \in DOMAIN generation_tasks :
             (generation_tasks[t].status # "completed"
                /\ generation_tasks'[t].status = "completed") =>
                   /\ BgRender(t, "rendered")
                   /\ output_path(t) \in fs']_vars

\* one task just marked completed with its deck on disk and its template
\* not yet deleted, the other still processing without a file_path
C23_Witness ==
    /\ pc[1] = "cleanup" /\ StatusIn(1, {"completed"})
    /\ generation_tasks[1].file_path = output_path(1)
    /\ {output_path(1), template_path(1)} \subseteq fs
    /\ StatusIn(2, {"processing"})
    /\ generation_tasks[2].file_path = NoPath

\* the renderer's side of C23: create_presentation_from_template returns
\* only when the template was loaded and the save did not raise; otherwise
\* it raises, and BgRender takes the except clause
C23_ReturnsOnlyAfterSave ==
    result.op = "create_presentation_from_template" =>
        (result.out.ok <=> (input.env.loads /\ input.env.saves))

====
